---- MODULE Spec2Model ----
(***************************************************************************)
(* Model of backend/server.py: the /chat endpoint, the database            *)
(* augmentation step (_build_db_context_messages: query interpretation by  *)
(* an auxiliary LLM call, then the catalog query) and the two provider     *)
(* adapters (_chat_with_ollama, _chat_with_gemini).                        *)
(*                                                                         *)
(* Text is a sequence of one-character strings, so that lower(),           *)
(* startswith(), replace() and ILIKE are computed character by character.  *)
(* Long fixed texts (prompts, error texts) are kept as one piece.          *)
(***************************************************************************)
EXTENDS Integers, Sequences, FiniteSets, TLC

\* ------------------------------------------------------------------ text

Min(a, b) == IF a < b THEN a ELSE b

Upper == <<"A", "B", "C", "D", "E", "F", "G", "H", "I", "J", "K", "L", "M",
           "N", "O", "P", "Q", "R", "S", "T", "U", "V", "W", "X", "Y", "Z">>

Lowercase == <<"a", "b", "c", "d", "e", "f", "g", "h", "i", "j", "k", "l", "m",
               "n", "o", "p", "q", "r", "s", "t", "u", "v", "w", "x", "y", "z">>

\* str.lower(): every cased character is mapped to its lower-case form
LowerChar(c) ==
    IF \E i \in 1..Len(Upper) : Upper[i] = c
    THEN Lowercase[CHOOSE i \in 1..Len(Upper) : Upper[i] = c]
    ELSE c

Lower(s) == [i \in 1..Len(s) |-> LowerChar(s[i])]

\* str.startswith(prefix), case-sensitive
StartsWith(s, prefix) ==
    /\ Len(prefix) <= Len(s)
    /\ SubSeq(s, 1, Len(prefix)) = prefix

\* sub in s for strings
Contains(s, sub) ==
    \E i \in 0..(Len(s) - Len(sub)) : SubSeq(s, i + 1, i + Len(sub)) = sub

\* str.replace(old, ""): every non-overlapping occurrence of old, scanning
\* from the left, is removed
RECURSIVE RemoveAll(_, _)
RemoveAll(s, old) ==
    IF s = <<>> THEN <<>>
    ELSE IF StartsWith(s, old) THEN RemoveAll(SubSeq(s, Len(old) + 1, Len(s)), old)
    ELSE <<Head(s)>> \o RemoveAll(Tail(s), old)

\* SQL (I)LIKE of value s against pattern p, case-insensitively:
\* "%" matches any run of characters, "_" matches any one character
RECURSIVE ILike(_, _)
ILike(s, p) ==
    IF p = <<>> THEN s = <<>>
    ELSE IF Head(p) = "%" THEN ILike(s, Tail(p)) \/ (s # <<>> /\ ILike(Tail(s), p))
    ELSE /\ s # <<>>
         /\ (Head(p) = "_" \/ LowerChar(Head(p)) = LowerChar(Head(s)))
         /\ ILike(Tail(s), Tail(p))

\* the pattern f"%{keyword}%"
LikePattern(keyword) == <<"%">> \o keyword \o <<"%">>

\* ------------------------------------------------------- request inputs

GEMINI == <<"g", "e", "m", "i", "n", "i">>
DefaultModel == <<"l", "l", "a", "m", "a", "3", ".", "2">>
FallbackGeminiModel == GEMINI \o <<"-", "2", ".", "5", "-", "f", "l", "a", "s", "h">>
ModelsPrefix == <<"m", "o", "d", "e", "l", "s", "/">>

\* the "model" key of the payload: absent, or one of these strings
Models ==
    { <<>>,
      GEMINI \o <<"-", "p">>,
      <<"G", "e", "m", "i", "n", "i">> \o <<"-", "p">>,
      <<"g", "e", "m", "i", "n">>,
      <<"x">> \o GEMINI,
      ModelsPrefix \o GEMINI \o <<"-", "p">>,
      GEMINI \o <<"-">> \o ModelsPrefix \o <<"p">> }

\* payload.get("provider") when the key is absent
NoProvider == "<None>"

Msg(role, content) == [role |-> role, content |-> content]

\* the "messages" key of the payload
Conversations ==
    { <<Msg("user", <<"H", "i">>)>>,
      <<Msg("system", <<"s">>), Msg("user", <<"a">>), Msg("assistant", <<>>)>>,
      <<Msg("user", <<"a">>), Msg("user", <<>>)>>,
      <<Msg("system", <<>>), Msg("assistant", <<"b">>)>> }

\* os.getenv("GEMINI_API_KEY"): unset, or a string that may be empty
ApiKeys == { [set |-> FALSE, val |-> <<>>],
             [set |-> TRUE, val |-> <<>>],
             [set |-> TRUE, val |-> <<"k">>] }

\* variant: only an unset variable counts as missing
NoApiKeyUnsetOnly(k) == ~k.set

\* not api_key: None and "" are both falsy
NoApiKey(k) == ~k.set \/ k.val = <<>>

\* -------------------------------------------------------------- catalog

\* bounds of the catalog-query inputs
MaxPrice == 3
MaxLimit == 3

Item(id, name, category, price, description, stock) ==
    [id |-> id, name |-> name, category |-> category, price |-> price,
     description |-> description, stock |-> stock]

\* rows of the products table, written in id order
Products ==
    << Item(1, <<"G", "p">>, <<"p", "c">>, 2, <<"a", "b">>, 1),
       Item(2, <<"t", "v">>, <<"G", "P">>, 1, <<>>, 0),
       Item(3, <<"g", "-", "p">>, <<"p", "c">>, 3, <<"t", "v">>, 2),
       Item(4, <<"a", "b">>, <<"t", "v">>, 2, <<"g", "p">>, 3) >>

\* the table a chat request runs against
ChatCatalog == SubSeq(Products, 1, 3)

\* the tables the query alone is run against
Catalogs == { SubSeq(Products, 1, n) : n \in 0..Len(Products) }

Rows(cat) == { cat[i] : i \in 1..Len(cat) }

\* dict.get(key, default) on a JSON object
Get(obj, key, default) == IF key \in DOMAIN obj THEN obj[key] ELSE default

\* dict.get(key) is not None
Has(obj, key) == key \in DOMAIN obj

DefaultLimit == 20

\* or_(category ILIKE %kw%, name ILIKE %kw% for every keyword)
CategoryFilter(p, category_keywords) ==
    \E i \in 1..Len(category_keywords) :
        \/ ILike(p.category, LikePattern(category_keywords[i]))
        \/ ILike(p.name, LikePattern(category_keywords[i]))

\* or_(name ILIKE %term%, description ILIKE %term% for every term)
SearchFilter(p, search_terms) ==
    \E i \in 1..Len(search_terms) :
        \/ ILike(p.name, LikePattern(search_terms[i]))
        \/ ILike(p.description, LikePattern(search_terms[i]))

MinPriceFilter(p, min_price) == p.price >= min_price

MaxPriceFilter(p, max_price) == p.price <= max_price

\* and_(*filters): a filter is in the list only if its field is present
\* and, for the two lists, non-empty
Filters(p, query_params) ==
    /\ Get(query_params, "category_keywords", <<>>) # <<>>
          => CategoryFilter(p, query_params["category_keywords"])
    /\ Get(query_params, "search_terms", <<>>) # <<>>
          => SearchFilter(p, query_params["search_terms"])
    /\ Has(query_params, "min_price") => MinPriceFilter(p, query_params["min_price"])
    /\ Has(query_params, "max_price") => MaxPriceFilter(p, query_params["max_price"])

\* order_by(Product.price.asc()) is added when a price bound is present
OrderedByPrice(query_params) ==
    Has(query_params, "min_price") \/ Has(query_params, "max_price")

\* all sequences that list the elements of S once each
Perms(S) ==
    { f \in [1..Cardinality(S) -> S] : \A i, j \in 1..Cardinality(S) : i # j => f[i] # f[j] }

SortedByPrice(r) == \A i, j \in 1..Len(r) : i < j => r[i].price <= r[j].price

\* The row orders the database may produce for the query: ORDER BY price
\* fixes the order up to ties, and without ORDER BY any order may be used.
RowOrders(cat, query_params) ==
    { r \in Perms({ p \in Rows(cat) : Filters(p, query_params) }) :
        OrderedByPrice(query_params) => SortedByPrice(r) }

\* query.limit(limit).all(): the results the database may return
QueryAll(cat, query_params) ==
    { SubSeq(r, 1, Min(Get(query_params, "limit", DefaultLimit), Len(r))) :
        r \in RowOrders(cat, query_params) }

\* ---------------------------------------------------- query interpreter

\* a JSON value as json.loads / resp.json() returns it: a dict carries its
\* keys in obj, every other type has no keys (and no .get)
Json(type, obj) == [type |-> type, obj |-> obj]

EmptyObj == <<>>

Object(obj) == Json("object", obj)

\* the fallback query_params = {"limit": 20}
DefaultParams == Object([limit |-> 20])

\* pieces of the text the interpreter model answers with; the fence marker
\* (three backquotes) is written <fence>
FenceJson == "<fence>json"
Fence == "<fence>"
NL == "\n"
Whitespace == {NL, " "}

TextAll == "{\"limit\": 50}"
TextGpu == "{\"category_keywords\": [\"gp\", \"g_p\"], \"max_price\": 2, \"limit\": 20}"
TextMin == "{\"min_price\": 2, \"limit\": 1}"
TextTerm == "{\"search_terms\": [\"TV\"], \"category_keywords\": []}"
TextNone == "{\"search_terms\": [\"zz\"]}"
TextEmpty == "{}"
TextArray == "[1, 2]"
TextNumber == "42"
TextString == "\"gpu\""
TextNull == "null"

\* json.loads on one piece of text: the value of every piece that is valid
\* JSON; every other piece raises JSONDecodeError
JsonTexts ==
    [t \in {TextAll, TextGpu, TextMin, TextTerm, TextNone, TextEmpty,
            TextArray, TextNumber, TextString, TextNull} |->
        CASE t = TextAll -> Object([limit |-> 50])
          [] t = TextGpu -> Object([category_keywords |-> << <<"g", "p">>, <<"g", "_", "p">> >>,
                                    max_price |-> 2, limit |-> 20])
          [] t = TextMin -> Object([min_price |-> 2, limit |-> 1])
          [] t = TextTerm -> Object([search_terms |-> << <<"T", "V">> >>,
                                     category_keywords |-> <<>>])
          [] t = TextNone -> Object([search_terms |-> << <<"z", "z">> >>])
          [] t = TextEmpty -> Object(EmptyObj)
          [] t = TextArray -> Json("array", EmptyObj)
          [] t = TextNumber -> Json("number", EmptyObj)
          [] t = TextString -> Json("string", EmptyObj)
          [] t = TextNull -> Json("null", EmptyObj)]

\* str.strip(): leading and trailing whitespace removed
RECURSIVE LStrip(_)
LStrip(t) == IF t # <<>> /\ Head(t) \in Whitespace THEN LStrip(Tail(t)) ELSE t

RECURSIVE RStrip(_)
RStrip(t) ==
    IF t # <<>> /\ t[Len(t)] \in Whitespace THEN RStrip(SubSeq(t, 1, Len(t) - 1)) ELSE t

Strip(t) == RStrip(LStrip(t))

InText(t, pieces) == \E i \in 1..Len(t) : t[i] \in pieces

\* index of the first piece of t, from position from on, that is in pieces;
\* Len(t) + 1 when there is none
RECURSIVE Find(_, _, _)
Find(t, pieces, from) ==
    IF from > Len(t) THEN Len(t) + 1
    ELSE IF t[from] \in pieces THEN from
    ELSE Find(t, pieces, from + 1)

\* t.split(sep)[1] for a separator that occurs in t: the text between the
\* first occurrence and the next one (or the end)
SplitSecond(t, pieces) ==
    SubSeq(t, Find(t, pieces, 1) + 1, Find(t, pieces, Find(t, pieces, 1) + 1) - 1)

\* t.split(sep)[0]: the text before the first occurrence
SplitFirst(t, pieces) == SubSeq(t, 1, Find(t, pieces, 1) - 1)

\* lines 255-259: strip, then keep the inside of the first fenced block;
\* the bare marker also occurs at the start of every tagged marker
StripFences(ai_response) ==
    IF InText(Strip(ai_response), {FenceJson})
    THEN Strip(SplitFirst(SplitSecond(Strip(ai_response), {FenceJson}), {Fence, FenceJson}))
    ELSE IF InText(Strip(ai_response), {Fence})
    THEN Strip(SplitFirst(SplitSecond(Strip(ai_response), {Fence}), {Fence}))
    ELSE Strip(ai_response)

\* json.loads succeeds on exactly one valid JSON text, surrounding
\* whitespace allowed
JsonValid(t) == Len(Strip(t)) = 1 /\ Strip(t)[1] \in DOMAIN JsonTexts

JsonLoads(t) == JsonTexts[Strip(t)[1]]

\* the response body of the generateContent call, as nested dicts
Part(t) == Object([text |-> t])
Candidate(parts) == Object([content |-> Object([parts |-> parts])])
Body(candidates) == Object([candidates |-> candidates])

\* line 253: data.get("candidates", [{}])[0].get("content", {})
\*            .get("parts", [{}])[0].get("text", "{}")
\* raises IndexError on an empty list and AttributeError on a non-dict
Candidates(data) == Get(data.obj, "candidates", <<Object(EmptyObj)>>)
Content(data) == Get(Candidates(data)[1].obj, "content", Object(EmptyObj))
Parts(data) == Get(Content(data).obj, "parts", <<Object(EmptyObj)>>)

ExtractRaises(data) ==
    \/ data.type # "object"
    \/ Candidates(data) = <<>>
    \/ Parts(data) = <<>>

ExtractText(data) == Get(Parts(data)[1].obj, "text", <<TextEmpty>>)

\* what requests.post returns or raises
Response(kind, status, valid, data) ==
    [kind |-> kind, status |-> status, valid |-> valid, data |-> data]

NoData == Json("null", EmptyObj)

\* variant: resp.ok is not tested
InterpretAnyStatus(resp) ==
    IF resp.kind = "exception" THEN DefaultParams
    ELSE IF ~resp.valid THEN DefaultParams
    ELSE IF ExtractRaises(resp.data) THEN DefaultParams
    ELSE IF ~JsonValid(StripFences(ExtractText(resp.data))) THEN DefaultParams
    ELSE JsonLoads(StripFences(ExtractText(resp.data)))

\* lines 240-268: query_params after the interpreter call
Interpret(resp) ==
    IF resp.kind = "exception" THEN DefaultParams
    ELSE IF ~(resp.status < 400) THEN DefaultParams
    ELSE IF ~resp.valid THEN DefaultParams
    ELSE IF ExtractRaises(resp.data) THEN DefaultParams
    ELSE IF ~JsonValid(StripFences(ExtractText(resp.data))) THEN DefaultParams
    ELSE JsonLoads(StripFences(ExtractText(resp.data)))

\* ------------------------------------------------------ external answers

\* the answers of the generateContent call of the interpreter (line 241)
InterpTexts ==
    { <<TextAll>>,
      <<NL, TextMin, NL>>,
      <<FenceJson, NL, TextGpu, NL, Fence>>,
      <<Fence, NL, TextTerm, NL, Fence>>,
      <<"Sure:", NL, FenceJson, TextNone, Fence, "Bye">>,
      <<FenceJson, TextAll>>,
      <<Fence, "JSON", NL, TextAll, Fence>>,
      <<"Sure:", TextAll>>,
      <<"{limit: 50}">>,
      <<>>,
      <<TextArray>>,
      <<TextNumber>>,
      <<FenceJson, NL, TextString, NL, Fence>>,
      <<TextNull>> }

InterpBodies ==
    { Object(EmptyObj),
      Body(<<>>),
      Body(<<Object(EmptyObj)>>),
      Body(<<Object([content |-> Object(EmptyObj)])>>),
      Body(<<Candidate(<<>>)>>),
      Body(<<Candidate(<<Object(EmptyObj)>>)>>),
      Json("array", EmptyObj) }
    \cup { Body(<<Candidate(<<Part(t)>>)>>) : t \in InterpTexts }

InterpResponses ==
    { Response("exception", 0, FALSE, NoData),
      Response("response", 429, TRUE, Object(EmptyObj)),
      Response("response", 500, FALSE, NoData),
      Response("response", 200, FALSE, NoData) }
    \cup { Response("response", 200, TRUE, d) : d \in InterpBodies }

\* the answers of the local backend (line 70)
OllamaReply == Object([message |-> Msg("assistant", <<"o", "k">>), done |-> TRUE,
                       total_duration |-> 7])

OllamaResponses ==
    { Response("exception", 0, FALSE, NoData),
      Response("response", 200, TRUE, OllamaReply),
      Response("response", 200, TRUE, Object(EmptyObj)),
      Response("response", 200, FALSE, NoData),
      Response("response", 302, TRUE, OllamaReply),
      Response("response", 404, TRUE, Object([error |-> <<"model not found">>])),
      Response("response", 503, FALSE, NoData) }

\* the answers of the cloud backend (line 114)
GeminiResponses ==
    { Response("exception", 0, FALSE, NoData),
      Response("response", 200, TRUE, Body(<<Candidate(<<Part(<<"o", "k">>)>>)>>)),
      Response("response", 200, TRUE, Object(EmptyObj)),
      Response("response", 200, TRUE, Body(<<Candidate(<<Object(EmptyObj)>>)>>)),
      Response("response", 400, TRUE, Object([error |-> <<"bad request">>])),
      Response("response", 503, FALSE, NoData) }

\* resp.text of an answer, as far as the code quotes it
BodyText(resp) ==
    IF resp.valid /\ "error" \in DOMAIN resp.data.obj THEN resp.data.obj["error"]
    ELSE <<"<html>">>

\* ------------------------------------------------------------- payloads

Opt(key, values) == {EmptyObj} \cup { key :> v : v \in values }

\* requests that go straight to the router
RoutedPayloads ==
    { m @@ p @@ u @@ c :
        m \in Opt("model", Models),
        p \in Opt("provider", {"gemini", "ollama"}),
        u \in { "use_database" :> FALSE },
        c \in Opt("messages", {<<Msg("user", <<"H", "i">>), Msg("assistant", <<>>)>>}) }

\* requests that are augmented first
AugmentedPayloads ==
    { m @@ p @@ u @@ c :
        m \in Opt("model", {<<"G", "e", "m", "i", "n", "i">> \o <<"-", "p">>}),
        p \in Opt("provider", {"gemini"}),
        u \in Opt("use_database", {TRUE}),
        c \in Opt("messages", Conversations) }

Payloads == RoutedPayloads \cup AugmentedPayloads

\* ---------------------------------------------------------------- state

VARIABLES
    api_key,        \* os.getenv("GEMINI_API_KEY")
    catalog,        \* the products table
    pc,             \* position of the request in chat()
    model,          \* chat(): model
    provider,       \* chat(): provider
    use_database,   \* chat(): use_database
    request,        \* the messages of the payload
    messages,       \* chat(): messages, rebound after augmentation
    interp,         \* the answer of the interpreter call, if one was made
    query_params,   \* _build_db_context_messages(): query_params
    results,        \* _build_db_context_messages(): results
    builder,        \* how _build_db_context_messages() ended
    open_sessions,  \* sessions created on which close() has not been called
    close_failed,   \* db.close() raised (and was swallowed)
    calls,          \* external calls of this request, in order
    backend,        \* the adapter the router chose
    sent,           \* what was posted to the provider
    db_error,       \* the database operation of this request that failed, if any
    upstream,       \* the answer of the provider, if it was called
    response        \* what the caller of POST /chat receives

vars == <<api_key, catalog, pc, model, provider, use_database, request, messages,
          interp, query_params, results, builder, open_sessions, close_failed,
          calls, backend, sent, db_error, upstream, response>>

NoInterp == Response("none", 0, FALSE, NoData)
NoParams == Json("unset", EmptyObj)
NoSent == [backend |-> "none", model |-> <<>>, messages |-> <<>>]

Outcome(status, value, error) == [status |-> status, value |-> value, error |-> error]
NotRun == Outcome("none", <<>>, <<>>)
Returned(context_messages) == Outcome("returned", context_messages, <<>>)
Raised(error) == Outcome("raised", <<>>, error)

\* the HTTP answer of the route: a returned dict, an HTTPException, or any
\* other exception leaving chat(), which the framework answers with a bare
\* 500 that carries nothing of the exception
NoResponse == [kind |-> "none", exc |-> "none", status |-> 0, detail |-> <<>>, body |-> EmptyObj]
Ok(body) == [kind |-> "ok", exc |-> "none", status |-> 200, detail |-> <<>>, body |-> body]
HTTPException(status, detail) ==
    [kind |-> "error", exc |-> "HTTPException", status |-> status, detail |-> detail,
     body |-> EmptyObj]
Unhandled(exc) ==
    [kind |-> "error", exc |-> exc, status |-> 500, detail |-> <<"Internal Server Error">>,
     body |-> EmptyObj]

Init ==
    /\ api_key \in ApiKeys
    /\ catalog = ChatCatalog
    /\ pc = "idle"
    /\ model = DefaultModel
    /\ provider = NoProvider
    /\ use_database = TRUE
    /\ request = <<>>
    /\ messages = <<>>
    /\ interp = NoInterp
    /\ query_params = NoParams
    /\ results = <<>>
    /\ builder = NotRun
    /\ open_sessions = 0
    /\ close_failed = FALSE
    /\ calls = <<>>
    /\ backend = "none"
    /\ sent = NoSent
    /\ db_error = "none"
    /\ upstream = NoInterp
    /\ response = NoResponse

\* ----------------------------------------------------------------- chat

\* lines 43-49: the payload is read, defaults applied
Chat(payload) ==
    /\ pc = "idle"
    /\ model' = Get(payload, "model", DefaultModel)
    /\ request' = Get(payload, "messages", <<>>)
    /\ messages' = Get(payload, "messages", <<>>)
    /\ provider' = Get(payload, "provider", NoProvider)
    /\ use_database' = Get(payload, "use_database", TRUE)
    /\ pc' = IF Get(payload, "use_database", TRUE) THEN "open" ELSE "route"
    /\ interp' = NoInterp
    /\ query_params' = NoParams
    /\ results' = <<>>
    /\ builder' = NotRun
    /\ close_failed' = FALSE
    /\ calls' = <<>>
    /\ backend' = "none"
    /\ sent' = NoSent
    /\ db_error' = "none"
    /\ upstream' = NoInterp
    /\ response' = NoResponse
    /\ UNCHANGED <<api_key, catalog, open_sessions>>

\* variant: the note leaves out str(e)
ErrorNoteWithoutText(error) == Msg("system", <<"Note: database retrieval failed: ">>)

\* line 55: the note put in front of the messages when the builder raised
ErrorNote(error) == Msg("system", <<"Note: database retrieval failed: ">> \o error)

\* variant: the exception is swallowed without a note
AugmentedSilently(outcome, msgs) ==
    IF outcome.status = "raised" THEN msgs
    ELSE IF outcome.value # <<>> THEN outcome.value \o msgs
    ELSE msgs

\* lines 50-55: messages after the call of _build_db_context_messages
Augmented(outcome, msgs) ==
    IF outcome.status = "raised" THEN <<ErrorNote(outcome.error)>> \o msgs
    ELSE IF outcome.value # <<>> THEN outcome.value \o msgs
    ELSE msgs

\* lines 199-200: the lower-cased content of the last user message, or ""
UserTexts(msgs) == SelectSeq(msgs, LAMBDA m : m.role = "user")

\* variant: the last message is taken whatever its role
LastQueryAnyRole(msgs) ==
    IF msgs = <<>> THEN <<>> ELSE Lower(msgs[Len(msgs)].content)

LastQuery(msgs) ==
    IF UserTexts(msgs) = <<>> THEN <<>>
    ELSE Lower(UserTexts(msgs)[Len(UserTexts(msgs))].content)

\* lines 196-205 and 238-239, 269-271: the session is created; without a
\* user query the builder returns [], without a credential the fallback
\* parameters are used, otherwise the interpreter is called next
OpenSession ==
    /\ pc = "open"
    /\ \/ /\ db_error' = "session"
          /\ builder' = Raised(<<"OperationalError: session">>)
          /\ messages' = Augmented(Raised(<<"OperationalError: session">>), messages)
          /\ pc' = "route"
          /\ UNCHANGED <<open_sessions, query_params>>
       \/ /\ open_sessions' = open_sessions + 1
          /\ UNCHANGED db_error
          /\ IF LastQuery(messages) = <<>>
             THEN /\ builder' = Returned(<<>>)
                  /\ pc' = "close"
                  /\ UNCHANGED query_params
             ELSE IF NoApiKey(api_key)
             THEN /\ query_params' = DefaultParams
                  /\ pc' = "query"
                  /\ UNCHANGED builder
             ELSE /\ pc' = "interp"
                  /\ UNCHANGED <<builder, query_params>>
          /\ UNCHANGED messages
    /\ UNCHANGED <<api_key, catalog, model, provider, use_database, request, interp,
                   results, close_failed, calls, backend, sent, upstream, response>>

\* lines 240-268: the interpreter call and the parsing of its answer
InterpCall ==
    /\ pc = "interp"
    /\ \E resp \in InterpResponses :
          /\ interp' = resp
          /\ query_params' = Interpret(resp)
    /\ calls' = Append(calls, "interpreter")
    /\ pc' = "query"
    /\ UNCHANGED <<api_key, catalog, model, provider, use_database, request, messages,
                   results, builder, open_sessions, close_failed, backend, sent, db_error,
                   upstream, response>>

\* the Python type of a JSON value that is not a dict
PyType(type) ==
    CASE type = "array" -> "list"
      [] type = "number" -> "int"
      [] type = "string" -> "str"
      [] OTHER -> "NoneType"

\* line 279 on a query_params that is not a dict
AttributeError(type) == <<"'", PyType(type), "' object has no attribute 'get'">>

NoProducts == Msg("system", <<"DATABASE: No products found matching those criteria.">>)

\* line 332: one line per product
ProductLine(p) ==
    <<"- ">> \o p.name \o <<" | Category: ">> \o p.category
        \o <<" | Price: $", ToString(p.price), ".0", " | Stock: ", ToString(p.stock), NL>>

RECURSIVE ProductLines(_)
ProductLines(rs) == IF rs = <<>> THEN <<>> ELSE ProductLine(Head(rs)) \o ProductLines(Tail(rs))

\* lines 330-337: the context message
Context(rs, total_in_db) ==
    Msg("system",
        <<"DATABASE RESULTS: Found ", ToString(Len(rs)), " products (total in database: ",
          ToString(total_in_db), ")", NL, NL>> \o ProductLines(rs))

\* lines 276-325: the filters are built and the query is run; a
\* query_params that is not a dict has no .get
CatalogQuery ==
    /\ pc = "query"
    /\ IF query_params.type # "object"
       THEN /\ builder' = Raised(AttributeError(query_params.type))
            /\ pc' = "close"
            /\ UNCHANGED <<results, calls, db_error>>
       ELSE /\ calls' = Append(calls, "catalog_query")
            /\ \/ /\ db_error' = "query"
                  /\ builder' = Raised(<<"OperationalError: query">>)
                  /\ pc' = "close"
                  /\ UNCHANGED results
               \/ \E r \in QueryAll(catalog, query_params.obj) :
                     /\ results' = r
                     /\ UNCHANGED db_error
                     /\ IF r = <<>>
                        THEN /\ builder' = Returned(<<NoProducts>>)
                             /\ pc' = "close"
                        ELSE /\ pc' = "count"
                             /\ UNCHANGED builder
    /\ UNCHANGED <<api_key, catalog, model, provider, use_database, request, messages,
                   interp, query_params, open_sessions, close_failed, backend, sent,
                   upstream, response>>

\* lines 328-337: the table is counted and the context message is built
CatalogCount ==
    /\ pc = "count"
    /\ calls' = Append(calls, "catalog_count")
    /\ \/ /\ db_error' = "count"
          /\ builder' = Raised(<<"OperationalError: count">>)
       \/ /\ builder' = Returned(<<Context(results, Len(catalog))>>)
          /\ UNCHANGED db_error
    /\ pc' = "close"
    /\ UNCHANGED <<api_key, catalog, model, provider, use_database, request, messages,
                   interp, query_params, results, open_sessions, close_failed, backend,
                   sent, upstream, response>>

\* variant: an exception of close() leaves the builder in place of its result
CloseSessionPropagating ==
    /\ pc = "close"
    /\ open_sessions' = open_sessions - 1
    /\ \E failed \in BOOLEAN :
          /\ close_failed' = failed
          /\ builder' = IF failed THEN Raised(<<"OperationalError: close">>) ELSE builder
          /\ messages' = Augmented(IF failed THEN Raised(<<"OperationalError: close">>)
                                             ELSE builder, messages)
    /\ interp' = NoInterp
    /\ query_params' = NoParams
    /\ results' = <<>>
    /\ pc' = "route"
    /\ UNCHANGED <<api_key, catalog, model, provider, use_database, request,
                   calls, backend, sent, db_error, upstream, response>>

\* lines 339-343, then 52-55: the session is closed, an exception of close()
\* is swallowed, the builder's locals are gone, and chat() takes the
\* builder's result or its exception
CloseSession ==
    /\ pc = "close"
    /\ open_sessions' = open_sessions - 1
    /\ close_failed' \in BOOLEAN
    /\ interp' = NoInterp
    /\ query_params' = NoParams
    /\ results' = <<>>
    /\ messages' = Augmented(builder, messages)
    /\ pc' = "route"
    /\ UNCHANGED <<api_key, catalog, model, provider, use_database, request, builder,
                   calls, backend, sent, db_error, upstream, response>>

\* ------------------------------------------------------ provider router

\* variant: the model prefix is compared case-sensitively
RoutesToGeminiCaseSensitive(prov, mdl) == prov = "gemini" \/ StartsWith(mdl, GEMINI)

\* line 58
RoutesToGemini(prov, mdl) == prov = "gemini" \/ StartsWith(Lower(mdl), GEMINI)

\* variant: messages with empty content are converted too
ContentsKeepingEmpty(msgs) ==
    [i \in 1..Len(msgs) |->
        [role |-> IF msgs[i].role = "assistant" THEN "model" ELSE "user",
         parts |-> <<[text |-> msgs[i].content]>>]]

\* lines 88-99: non-empty messages become Gemini contents
RECURSIVE Contents(_)
Contents(msgs) ==
    IF msgs = <<>> THEN <<>>
    ELSE IF Head(msgs).content = <<>> THEN Contents(Tail(msgs))
    ELSE <<[role |-> IF Head(msgs).role = "assistant" THEN "model" ELSE "user",
            parts |-> <<[text |-> Head(msgs).content]>>]>> \o Contents(Tail(msgs))

\* lines 102-106: the model name put in the URL
ModelName(mdl) ==
    RemoveAll(IF mdl = <<>> \/ ~StartsWith(mdl, GEMINI) THEN FallbackGeminiModel ELSE mdl,
              ModelsPrefix)

\* lines 58-61, 65-69 and 83-111: the adapter is chosen and its request built
Route ==
    /\ pc = "route"
    /\ IF RoutesToGemini(provider, model)
       THEN /\ backend' = "gemini"
            /\ IF NoApiKey(api_key)
               THEN /\ response' = HTTPException(500, <<"GEMINI_API_KEY is not set">>)
                    /\ pc' = "done"
                    /\ UNCHANGED sent
               ELSE /\ sent' = [backend |-> "gemini", model |-> ModelName(model),
                                messages |-> Contents(messages)]
                    /\ pc' = "gemini"
                    /\ UNCHANGED response
       ELSE /\ backend' = "ollama"
            /\ sent' = [backend |-> "ollama", model |-> model, messages |-> messages]
            /\ pc' = "ollama"
            /\ UNCHANGED response
    /\ UNCHANGED <<api_key, catalog, model, provider, use_database, request, messages,
                   interp, query_params, results, builder, open_sessions, close_failed,
                   calls, db_error, upstream>>

\* lines 70-79: raise_for_status() raises requests.HTTPError for 4xx and 5xx
OllamaResult(resp, mdl) ==
    IF resp.kind = "exception" THEN Unhandled("ConnectionError")
    ELSE IF resp.status >= 400 THEN Unhandled("HTTPError")
    ELSE IF ~resp.valid THEN Unhandled("JSONDecodeError")
    ELSE Ok([message |-> Get(resp.data.obj, "message", EmptyObj),
             done |-> Get(resp.data.obj, "done", TRUE),
             total_duration |-> Get(resp.data.obj, "total_duration", -1),
             model |-> Get(resp.data.obj, "model", mdl),
             provider |-> "ollama"])

\* variant: a failed call of the local backend is issued again
OllamaCallRetrying ==
    /\ pc = "ollama"
    /\ calls' = Append(calls, "ollama")
    /\ \E resp \in OllamaResponses :
          /\ upstream' = resp
          /\ response' = OllamaResult(resp, sent.model)
          /\ pc' = IF resp.kind = "exception" THEN "ollama" ELSE "done"
    /\ UNCHANGED <<api_key, catalog, model, provider, use_database, request, messages,
                   interp, query_params, results, builder, open_sessions, close_failed,
                   backend, sent, db_error>>

\* lines 66-79: the one call of the local backend
OllamaCall ==
    /\ pc = "ollama"
    /\ calls' = Append(calls, "ollama")
    /\ \E resp \in OllamaResponses :
          /\ upstream' = resp
          /\ response' = OllamaResult(resp, sent.model)
    /\ pc' = "done"
    /\ UNCHANGED <<api_key, catalog, model, provider, use_database, request, messages,
                   interp, query_params, results, builder, open_sessions, close_failed,
                   backend, sent, db_error>>

\* lines 128-133: the text of the first part of the first candidate, or ""
ContentText(data) ==
    IF Get(data.obj, "candidates", <<>>) = <<>> THEN <<>>
    ELSE IF Get(Content(data).obj, "parts", <<>>) = <<>> THEN <<>>
    ELSE Get(Get(Content(data).obj, "parts", <<>>)[1].obj, "text", <<>>)

\* lines 113-143; resp.json() on a body that is not JSON raises an error that
\* is a RequestException in some versions of requests and a ValueError in others
GeminiResults(resp, model_name) ==
    IF resp.kind = "exception"
    THEN { HTTPException(500, <<"Request failed: ", "ConnectionError">>) }
    ELSE IF resp.status >= 400
    THEN { HTTPException(resp.status, <<"Gemini API error: ">> \o BodyText(resp)) }
    ELSE IF ~resp.valid
    THEN { HTTPException(500, <<"Request failed: ", "JSONDecodeError">>),
           Unhandled("JSONDecodeError") }
    ELSE { Ok([message |-> Msg("assistant", ContentText(resp.data)),
               done |-> TRUE,
               model |-> model_name,
               provider |-> "gemini"]) }

GeminiCall ==
    /\ pc = "gemini"
    /\ calls' = Append(calls, "gemini")
    /\ \E resp \in GeminiResponses :
          /\ upstream' = resp
          /\ response' \in GeminiResults(resp, sent.model)
    /\ pc' = "done"
    /\ UNCHANGED <<api_key, catalog, model, provider, use_database, request, messages,
                   interp, query_params, results, builder, open_sessions, close_failed,
                   backend, sent, db_error>>

\* the answer is delivered and nothing of the request is kept; the next
\* request may arrive
Return ==
    /\ pc = "done"
    /\ pc' = "idle"
    /\ model' = DefaultModel
    /\ provider' = NoProvider
    /\ use_database' = TRUE
    /\ request' = <<>>
    /\ messages' = <<>>
    /\ builder' = NotRun
    /\ close_failed' = FALSE
    /\ calls' = <<>>
    /\ backend' = "none"
    /\ sent' = NoSent
    /\ db_error' = "none"
    /\ upstream' = NoInterp
    /\ response' = NoResponse
    /\ UNCHANGED <<api_key, catalog, interp, query_params, results, open_sessions>>

Next ==
    \/ \E payload \in Payloads : Chat(payload)
    \/ OpenSession
    \/ InterpCall
    \/ CatalogQuery
    \/ CatalogCount
    \/ CloseSession
    \/ Route
    \/ OllamaCall
    \/ GeminiCall
    \/ Return

Spec == Init /\ [][Next]_vars

\* ------------------------------------------------- the query on its own

\* keyword and term lists the interpreter may answer with
KeywordLists ==
    { <<>>,
      << <<"g", "p">> >>,
      << <<"g", "_", "p">> >>,
      << <<"z", "z">>, <<"T", "V">> >> }

TermLists ==
    { <<>>,
      << <<"a", "B">> >>,
      << <<"t", "v">>, <<"z">> >> }

FilterSpecs ==
    { k @@ t @@ lo @@ hi @@ n :
        k \in Opt("category_keywords", KeywordLists),
        t \in Opt("search_terms", TermLists),
        lo \in Opt("min_price", 0..MaxPrice),
        hi \in Opt("max_price", 0..MaxPrice),
        n \in Opt("limit", 1..MaxLimit) }

\* the builder stands before line 276 with any parameters the interpreter
\* may have produced, over any of the tables
InitQuery ==
    /\ api_key = [set |-> TRUE, val |-> <<"k">>]
    /\ catalog \in Catalogs
    /\ pc = "query"
    /\ model = DefaultModel
    /\ provider = NoProvider
    /\ use_database = TRUE
    /\ request = <<Msg("user", <<"a">>)>>
    /\ messages = <<Msg("user", <<"a">>)>>
    /\ interp = NoInterp
    /\ query_params \in { Object(f) : f \in FilterSpecs }
    /\ results = <<>>
    /\ builder = NotRun
    /\ open_sessions = 1
    /\ close_failed = FALSE
    /\ calls = <<"interpreter">>
    /\ backend = "none"
    /\ sent = NoSent
    /\ db_error = "none"
    /\ upstream = NoInterp
    /\ response = NoResponse

NextQuery ==
    \/ CatalogQuery
    \/ CatalogCount
    \/ CloseSession

SpecQuery == InitQuery /\ [][NextQuery]_vars

\* --------------------------------------------------------------- claims

\* the credential is unset or empty
CredentialAbsent == api_key.set = FALSE \/ Len(api_key.val) = 0

NoUserMessage(msgs) == \A i \in 1..Len(msgs) : msgs[i].role # "user"

Count(seq, x) == Len(SelectSeq(seq, LAMBDA c : c = x))

Dispatched == {"ollama", "gemini", "done"}
AfterBuilder == {"route"} \cup Dispatched

\* C1: when the augmentation pipeline raises, the request goes on: exactly
\* one system message with the error text stands in front of the original
\* messages, which follow unchanged and in order, and the request is
\* dispatched to the selected provider with these messages.
C1_AugmentationFailureIsNoted ==
    (use_database /\ builder.status = "raised" /\ pc \in AfterBuilder) =>
        /\ Len(messages) = Len(request) + 1
        /\ messages[1].role = "system"
        /\ messages[1].content = <<"Note: database retrieval failed: ">> \o builder.error
        /\ SubSeq(messages, 2, Len(messages)) = request
        /\ pc \in Dispatched => backend \in {"ollama", "gemini"}
        /\ sent.backend = "ollama" => sent.messages = messages
        /\ sent.backend = "gemini" => sent.messages[1].parts[1].text = messages[1].content
        /\ pc = "done" =>
              \/ upstream.kind # "none" /\ sent.backend = backend
              \/ backend = "gemini" /\ CredentialAbsent

C1_Witness ==
    /\ pc = "done"
    /\ use_database
    /\ builder.status = "raised"
    /\ request # <<>>
    /\ response.kind = "ok"

\* the model string starts with "gemini" in any mix of upper and lower case
GeminiPrefixed(mdl) ==
    /\ Len(mdl) >= 6
    /\ mdl[1] \in {"g", "G"}
    /\ mdl[2] \in {"e", "E"}
    /\ mdl[3] \in {"m", "M"}
    /\ mdl[4] \in {"i", "I"}
    /\ mdl[5] \in {"n", "N"}
    /\ mdl[6] \in {"i", "I"}

\* C2: the router selects the cloud backend exactly when provider is
\* "gemini" or the model starts with "gemini" in any case, the local backend
\* otherwise; one of the two is selected for every request and the selection
\* step can always be taken.
C2_RouterSelection ==
    /\ pc \in Dispatched =>
          /\ backend \in {"ollama", "gemini"}
          /\ backend = "gemini" <=> (provider = "gemini" \/ GeminiPrefixed(model))
    /\ pc = "ollama" => sent.backend = "ollama"
    /\ pc = "gemini" => sent.backend = "gemini"
    /\ pc = "route" => ENABLED Route

C2_Witness ==
    /\ pc = "gemini"
    /\ provider # "gemini"
    /\ model[1] = "G"

\* the interpreter could not be asked, or its call failed
InterpreterUnavailable ==
    \/ CredentialAbsent
    \/ interp.kind = "exception"
    \/ interp.kind = "response" /\ interp.status \notin 200..299

MalformedAnswer ==
    /\ interp.kind = "response"
    /\ interp.status \in 200..299
    /\ \/ ~interp.valid
       \/ ExtractRaises(interp.data)
       \/ ~JsonValid(StripFences(ExtractText(interp.data)))
       \/ JsonLoads(StripFences(ExtractText(interp.data))).type # "object"

\* C4: for every malformed interpreter answer the builder works with the
\* default parameters {limit: 20}, and nothing is raised on account of the
\* answer.
C4_MalformedAnswerFallsBack ==
    (pc \in {"query", "count", "close"} /\ MalformedAnswer) =>
        /\ query_params = DefaultParams
        /\ builder.status = "raised" => db_error # "none"

\* C5 as stated: the builder never raises; a failing catalog operation comes
\* back from the builder as one system message.
C5_BuilderNeverRaises ==
    (db_error # "none" /\ pc \in ({"close"} \cup AfterBuilder)) =>
        /\ builder.status = "returned"
        /\ Len(builder.value) = 1
        /\ builder.value[1].role = "system"

\* C5: when session creation, the query or the count fails, the exception
\* leaves the builder (which returns no message), the session is closed,
\* chat() puts one system message reporting the failure in front of the
\* original messages, and the request goes on to the provider.
C5_CatalogFailureReachesChat ==
    (db_error # "none" /\ pc \in AfterBuilder) =>
        /\ builder.status = "raised"
        /\ builder.value = <<>>
        /\ open_sessions = 0
        /\ messages =
              <<Msg("system", <<"Note: database retrieval failed: ">> \o builder.error)>>
                  \o request
        /\ Len(builder.error) = 1
        /\ pc = "done" =>
              \/ upstream.kind # "none"
              \/ backend = "gemini" /\ CredentialAbsent

C5_Witness ==
    /\ pc = "done"
    /\ db_error = "count"
    /\ response.kind = "ok"

\* C6: when the local backend answers with a status outside 2xx, the caller
\* gets an error that carries the upstream status and body, no success
\* answer, and the backend was called once.
C6_LocalErrorCarriesUpstream ==
    (pc = "done" /\ backend = "ollama" /\ upstream.kind = "response"
        /\ upstream.status \notin 200..299) =>
        /\ response.kind = "error"
        /\ response.status = upstream.status
        /\ Contains(response.detail, BodyText(upstream))
        /\ Count(calls, "ollama") = 1

\* C7: a request routed to the cloud backend without a credential fails with
\* HTTP 500 and an explanation, and the cloud chat backend is not called.
C7_MissingCredentialIsConfigError ==
    /\ (pc = "done" /\ backend = "gemini" /\ CredentialAbsent) =>
          /\ response.kind = "error"
          /\ response.exc = "HTTPException"
          /\ response.status = 500
          /\ response.detail = <<"GEMINI_API_KEY is not set">>
          /\ upstream.kind = "none"
          /\ Count(calls, "gemini") = 0
    /\ pc = "gemini" => ~CredentialAbsent

C7_Witness ==
    /\ pc = "done"
    /\ backend = "gemini"
    /\ api_key.set
    /\ api_key.val = <<>>
    /\ response.status = 500

\* sub is a substring of s, case ignored
ContainsCI(s, sub) == Contains(Lower(s), Lower(sub))

\* the item satisfies every filter that is present in the FilterSpec f
Satisfies(p, f) ==
    /\ Get(f, "category_keywords", <<>>) # <<>> =>
          \E i \in 1..Len(f["category_keywords"]) :
              \/ ContainsCI(p.category, f["category_keywords"][i])
              \/ ContainsCI(p.name, f["category_keywords"][i])
    /\ Get(f, "search_terms", <<>>) # <<>> =>
          \E i \in 1..Len(f["search_terms"]) :
              \/ ContainsCI(p.name, f["search_terms"][i])
              \/ ContainsCI(p.description, f["search_terms"][i])
    /\ "min_price" \in DOMAIN f => f["min_price"] <= p.price
    /\ "max_price" \in DOMAIN f => p.price <= f["max_price"]

\* C8: every item the query returns satisfies the conjunction of the filters
\* present: a keyword is a substring (case ignored) of category or name, a
\* term is a substring of name or description, and the price lies within
\* the inclusive bounds.
C8_ResultsSatisfyFilters ==
    (pc \in {"count", "close"} /\ query_params.type = "object") =>
        \A i \in 1..Len(results) : Satisfies(results[i], query_params.obj)

OnlyLimit(qp) == qp.type = "object" /\ DOMAIN qp.obj = {"limit"}

\* C9: with a FilterSpec that carries only a limit, the result is exactly
\* the first limit rows of the table in ascending id order (all rows when
\* there are fewer).
C9_UnfilteredQueryInIdOrder ==
    (pc \in {"count", "close"} /\ OnlyLimit(query_params) /\ db_error = "none") =>
        results = SubSeq(catalog, 1, Min(query_params.obj["limit"], Len(catalog)))

\* C10 as stated: without a user message no network call is made and the
\* default FilterSpec {limit: 20} is returned.
C10_NoUserMessageGivesDefault ==
    (use_database /\ NoUserMessage(request) /\ pc = "close") =>
        /\ calls = <<>>
        /\ query_params = DefaultParams

\* C10: without a user message the interpreter makes no network call and no
\* FilterSpec is produced at all: the builder returns no context message
\* and runs no catalog query, so the messages go on unaugmented.
C10_NoUserMessageSkipsInterpreter ==
    (use_database /\ NoUserMessage(request) /\ pc \in ({"close"} \cup AfterBuilder)) =>
        /\ Count(calls, "interpreter") = 0
        /\ Count(calls, "catalog_query") = 0
        /\ interp = NoInterp
        /\ query_params = NoParams
        /\ db_error = "none" => (builder = Returned(<<>>) /\ messages = request)

C10_Witness ==
    /\ pc = "route"
    /\ use_database
    /\ request # <<>>
    /\ NoUserMessage(request)
    /\ builder.status = "returned"
    /\ ~CredentialAbsent

\* the texts of the payload posted to the provider, in order
SentTexts ==
    IF sent.backend = "gemini"
    THEN [i \in 1..Len(sent.messages) |-> sent.messages[i].parts[1].text]
    ELSE [i \in 1..Len(sent.messages) |-> sent.messages[i].content]

\* the non-empty contents of the messages, in order
NonEmptyTexts(msgs) ==
    [i \in 1..Len(SelectSeq(msgs, LAMBDA m : m.content # <<>>)) |->
        SelectSeq(msgs, LAMBDA m : m.content # <<>>)[i].content]

\* C11 as stated: for either provider the payload holds no message with
\* empty content; it holds exactly the non-empty messages of the
\* conversation, in order.
C11_NoEmptyContentTransmitted ==
    sent.backend # "none" =>
        /\ \A i \in 1..Len(SentTexts) : SentTexts[i] # <<>>
        /\ SentTexts = NonEmptyTexts(messages)

\* C11: the cloud adapter transmits exactly the non-empty messages of the
\* conversation, in order; the local adapter transmits the conversation
\* unchanged, messages with empty content included.
C11_OnlyCloudDropsEmptyContent ==
    /\ sent.backend = "gemini" =>
          /\ \A i \in 1..Len(SentTexts) : SentTexts[i] # <<>>
          /\ SentTexts = NonEmptyTexts(messages)
    /\ sent.backend = "ollama" => sent.messages = messages

C11_Witness ==
    /\ pc = "gemini"
    /\ \E i \in 1..Len(messages) : messages[i].content = <<>>
    /\ Len(sent.messages) >= 1
    /\ Len(sent.messages) < Len(messages)

\* the model without a leading "models/"
WithoutLeadingPrefix(mdl) ==
    IF Len(mdl) >= 7 /\ SubSeq(mdl, 1, 7) = <<"m", "o", "d", "e", "l", "s", "/">>
    THEN SubSeq(mdl, 8, Len(mdl))
    ELSE mdl

\* the model name the cloud adapter is to use for a requested model
CloudModelName(mdl) ==
    IF mdl = <<>> \/ ~GeminiPrefixed(mdl)
    THEN <<"g", "e", "m", "i", "n", "i", "-", "2", ".", "5", "-", "f", "l", "a", "s", "h">>
    ELSE WithoutLeadingPrefix(mdl)

\* C12: a request dispatched to the cloud adapter uses and reports the model
\* name "gemini-2.5-flash" when the requested model is unset or fails the
\* router's prefix test, and otherwise the requested model without a leading
\* "models/"; a requested cloud model is never replaced by the fallback.
C12_CloudModelName ==
    /\ sent.backend = "gemini" => sent.model = CloudModelName(model)
    /\ (pc = "done" /\ backend = "gemini" /\ response.kind = "ok") =>
          response.body.model = CloudModelName(model)

ProviderCalls == {"ollama", "gemini"}
ProviderCalled == \E i \in 1..Len(calls) : calls[i] \in ProviderCalls

\* the position of an external call in the pipeline when the catalog is one step
Stage(c) ==
    CASE c = "interpreter" -> 1
      [] c \in {"catalog_query", "catalog_count"} -> 2
      [] OTHER -> 3

\* the position of an external call when the two catalog statements are told apart
Position(c) ==
    CASE c = "interpreter" -> 1
      [] c = "catalog_query" -> 2
      [] c = "catalog_count" -> 3
      [] OTHER -> 4

\* the provider is called only once the request is past the builder, and
\* with the database in use the builder has then returned or raised
ProviderAfterAugmentation ==
    /\ ProviderCalled => pc = "done"
    /\ (pc \in Dispatched /\ use_database) => builder.status \in {"returned", "raised"}

C14_SessionsClosedBeforeProvider ==
    [][/\ open_sessions' \in {0, 1}
       /\ pc' \in ({"idle"} \cup AfterBuilder) => open_sessions' = 0
       /\ pc' \in {"interp", "query", "count", "close"} => open_sessions' = 1
       /\ pc = "close" =>
             /\ pc' = "route"
             /\ builder' = builder
             /\ messages' = IF builder.status = "raised"
                            THEN <<Msg("system", <<"Note: database retrieval failed: ">>
                                                     \o builder.error)>> \o messages
                            ELSE builder.value \o messages]_vars

C14_Witness ==
    /\ pc \in Dispatched
    /\ close_failed
    /\ builder.status = "raised"
    /\ db_error = "query"
    /\ open_sessions = 0

====
